---------------------------- MODULE Spec2Model ----------------------------
(***************************************************************************)
(* The optimizers of dmeoli/yase as state machines.                        *)
(*                                                                         *)
(* Every minimize() is a loop; one action is one pass of that loop, from   *)
(* the loop top to the break or to the end of the body.  Real numbers are  *)
(* exact rationals <<num, den>> (den > 0, lowest terms); a Euclidean norm  *)
(* is kept as a signed square root <<sign, square>>, so that every         *)
(* comparison the code makes (ng <= eps * ng0, a <= min_a, v <= m_inf,     *)
(* den <= 1e-12) is decided exactly.  Vectors are sequences of rationals.  *)
(***************************************************************************)
EXTENDS Integers, Sequences, FiniteSets, TLC

(***************************************************************************)
(* Bounds of the model.                                                    *)
(***************************************************************************)
\* max_iter ranges over 0 .. MaxIterBound
MaxIterBound == 2
\* max_f_eval ranges over 1 .. MaxFEvalBound
MaxFEvalBound == 2
\* one line search makes 1 .. LSEvalBound evaluations of f
LSEvalBound == 2
\* iter_mini_batches is given 1 .. MaxSamples samples
MaxSamples == 3

(***************************************************************************)
(* Rational arithmetic (numpy's float arithmetic, taken exactly).          *)
(***************************************************************************)
Abs(i) == IF i < 0 THEN -i ELSE i

RECURSIVE GCD(_, _)
GCD(a, b) == IF b = 0 THEN a ELSE GCD(b, a % b)

\* the rational n/d in lowest terms with a positive denominator (d # 0)
Rat(n, d) ==
    LET s == d \div Abs(d)
        k == GCD(Abs(n), Abs(d))
    IN  <<(s * n) \div k, (s * d) \div k>>

Zero == <<0, 1>>
One == <<1, 1>>

\* sums, products and comparisons cancel common factors before multiplying
RAdd(p, r) ==
    LET k == GCD(p[2], r[2])
    IN  Rat(p[1] * (r[2] \div k) + r[1] * (p[2] \div k), (p[2] \div k) * r[2])
RNeg(p) == <<-p[1], p[2]>>
RSub(p, r) == RAdd(p, RNeg(r))
RMul(p, r) ==
    LET k1 == GCD(Abs(p[1]), r[2])
        k2 == GCD(Abs(r[1]), p[2])
    IN  Rat((p[1] \div k1) * (r[1] \div k2), (p[2] \div k2) * (r[2] \div k1))
\* p / r; a zero r is an error of the model
RDiv(p, r) == RMul(p, Rat(r[2], r[1]))
RLe(p, r) ==
    LET k == GCD(p[2], r[2])
    IN  p[1] * (r[2] \div k) <= r[1] * (p[2] \div k)
RLt(p, r) == ~RLe(r, p)
RSign(p) == IF p[1] > 0 THEN 1 ELSE IF p[1] < 0 THEN -1 ELSE 0
RMax(p, r) == IF RLe(p, r) THEN r ELSE p
RMin(p, r) == IF RLe(p, r) THEN p ELSE r
RAbs(p) == <<Abs(p[1]), p[2]>>

(***************************************************************************)
(* Vectors and matrices.                                                   *)
(***************************************************************************)
VAdd(u, w) == [i \in 1..Len(u) |-> RAdd(u[i], w[i])]
VSub(u, w) == [i \in 1..Len(u) |-> RSub(u[i], w[i])]
VNeg(u) == [i \in 1..Len(u) |-> RNeg(u[i])]
VScale(a, u) == [i \in 1..Len(u) |-> RMul(a, u[i])]

RECURSIVE DotFrom(_, _, _)
DotFrom(u, w, i) ==
    IF i > Len(u) THEN Zero ELSE RAdd(RMul(u[i], w[i]), DotFrom(u, w, i + 1))

\* u.T.dot(w)
Dot(u, w) == DotFrom(u, w, 1)

\* Q.dot(u), Q a sequence of rows
MatVec(Q, u) == [i \in 1..Len(Q) |-> Dot(Q[i], u)]

(***************************************************************************)
(* Signed square roots: <<s, r>> is s * sqrt(r), r a rational >= 0.        *)
(***************************************************************************)
\* np.linalg.norm(u)
Norm(u) == LET r == Dot(u, u) IN <<RSign(r), r>>

\* a rational as a signed root
Root(p) == <<RSign(p), RMul(p, p)>>

SMul(a, b) == <<a[1] * b[1], RMul(a[2], b[2])>>
SNeg(a) == <<-a[1], a[2]>>

\* a <= b
SLe(a, b) ==
    IF a[1] < b[1] THEN TRUE
    ELSE IF a[1] > b[1] THEN FALSE
    ELSE IF a[1] = 1 THEN RLe(a[2], b[2])
    ELSE IF a[1] = -1 THEN RLe(b[2], a[2])
    ELSE TRUE

(***************************************************************************)
(* The objective: the quadratic f(x) = 1/2 x'Qx - q'x.                     *)
(***************************************************************************)
Half == <<1, 2>>

Function(f, x) == RSub(RMul(Half, Dot(x, MatVec(f.Q, x))), Dot(f.q, x))
Jacobian(f, x) == VSub(MatVec(f.Q, x), f.q)
Hessian(f) == f.Q

IntVec(s) == [i \in 1..Len(s) |-> <<s[i], 1>>]
IntMat(m) == [i \in 1..Len(m) |-> IntVec(m[i])]
Quad(Q, q) == [n |-> Len(q), Q |-> IntMat(Q), q |-> IntVec(q)]


(***************************************************************************)
(* Inputs: objectives, starting points and hyper-parameters.               *)
(***************************************************************************)
Quads ==
    { Quad(<< <<1>> >>, <<0>>),
      Quad(<< <<2>> >>, <<1>>),
      Quad(<< <<0>> >>, <<1>>),
      Quad(<< <<-1>> >>, <<0>>),
      Quad(<< <<1, 0>>, <<0, 1>> >>, <<0, 0>>),
      Quad(<< <<1, 0>>, <<0, 2>> >>, <<0, 0>>),
      Quad(<< <<2, 1>>, <<1, 2>> >>, <<1, 0>>),
      Quad(<< <<1, 0>>, <<0, -1>> >>, <<0, 0>>) }

Starts(n) ==
    IF n = 1 THEN { IntVec(<<-1>>), IntVec(<<0>>), IntVec(<<2>>) }
    ELSE { IntVec(<<-1, 1>>), IntVec(<<0, 0>>), IntVec(<<1, 0>>) }

EpsSet == { Zero, <<1, 2>>, <<-1, 2>> }

None == <<>>

(***************************************************************************)
(* State.                                                                  *)
(***************************************************************************)
VARIABLES
    alg,      \* which optimizer this run is
    f,        \* self.f, the objective
    par,      \* the hyper-parameters given to __init__
    start,    \* the starting point given to __init__
    pc,       \* "start": constructed; "loop": at the loop top; "done": returned;
              \* "raised": __init__ raised, nothing was constructed
    wrt,      \* self.wrt / self.x, the current point
    iter,     \* self.iter
    v,        \* the function value held in v / self.f_x
    g,        \* the gradient held in g
    ng,       \* its norm, as held in ng
    ng0,      \* the scale of the stopping test, as held in ng0
    status,   \* the status returned ("none" while running)
    f_eval,   \* f() evaluations count
    a,        \* the step the last line search returned
    last_wrt, \* last point visited in the line search
    last_g,   \* gradient of last_wrt
    past_g,   \* previous gradient
    past_d,   \* previous search direction
    beta,     \* beta of the last pass, and how it was chosen:
              \* "first" (no beta), "res" (restart) or "formula"
    step,     \* self.step, the step stored for the momentum
    est_mom1, \* AdaMax: 1st moment vector
    est_mom2, \* AdaMax: the exponentially weighted infinity norm
    jacobian, \* RProp: self.jacobian, the previous gradient
    changes,  \* RProp: self.changes, the step magnitudes
    n_batches, \* iter_mini_batches: the number of batches of an epoch
    idx,      \* iter_mini_batches: the batch indices, as last shuffled
    pos,      \* iter_mini_batches: how far the for loop is through idx
    batch,    \* iter_mini_batches: the list last yielded
    out,      \* iter_mini_batches: what the present pass over idx yielded
    prev_v,   \* the value of the pass before, kept for the rate that is printed
    printed   \* what the last pass of the loop printed

conf == <<alg, f, par, start>>
point == <<wrt, iter, v, g, ng, ng0>>
lsv == <<f_eval, a, last_wrt, last_g>>
dirv == <<past_g, past_d, beta>>
momv == <<step, est_mom1, est_mom2, jacobian, changes>>
genv == <<n_batches, idx, pos, batch, out>>
repv == <<prev_v, printed>>
vars == <<conf, pc, status, point, lsv, dirv, momv, genv, repv>>

Zeros(n) == [i \in 1..n |-> Zero]

\* an optimizer run holds no mini-batch generator of its own
NoBatches ==
    n_batches = None /\ idx = None /\ pos = None /\ batch = None /\ out = None

\* a run that reports nothing
NoReport == prev_v = None /\ printed = None

\* -inf, for m_inf: no rational is <= it
NegInf == <<-1, 0>>

\* the value of self.iter at the first pass of the loop
IterStart == 1

\* the stopping test: ng <= self.eps * ng0
StopTest(norm, eps, scale) == SLe(norm, SMul(Root(eps), scale))

\* the scale without the sign the relative test needs
ScaleUnsigned(eps, norm) == IF RLt(eps, Zero) THEN norm ELSE Root(One)

\* ng0 = -ng if self.eps < 0 else 1
Scale(eps, norm) == IF RLt(eps, Zero) THEN SNeg(norm) ELSE Root(One)

Finish(s) == status' = s /\ pc' = "done"

\* +inf: every rational is < it
PosInf == <<1, 0>>

\* x < np.inf, for an x that is a rational or +inf
BelowInf(p) == p # PosInf

\* x > -np.inf, for an x that is a rational or -inf
AboveNegInf(p) == p # NegInf

\* the quotient numpy prints, also where the divisor is zero
Quotient(p, r) ==
    IF r # Zero THEN RDiv(p, r)
    ELSE IF p = Zero THEN "nan"
    ELSE IF RLt(Zero, p) THEN PosInf ELSE NegInf

\* f_star as SteepestGradientDescentQuadratic is given it: unknown, or a value
FStarsSDQ == { PosInf, Zero }

\* f_star as self.f.function([]) gives it: unknown, or a value
FStarsSGD == { NegInf, Zero }

(***************************************************************************)
(* SteepestGradientDescentQuadratic                                        *)
(***************************************************************************)
InitSDQ ==
    /\ alg = "SDQ"
    /\ NoBatches
    /\ f \in Quads
    /\ wrt \in Starts(f.n)
    /\ start = wrt
    /\ par \in [eps : EpsSet, max_iter : 0..MaxIterBound,
                 f_star : FStarsSDQ, verbose : BOOLEAN]
    \* the lines of minimize() before the loop
    /\ prev_v = IF BelowInf(par.f_star) THEN PosInf ELSE None
    /\ printed = None
    /\ pc = "loop"
    /\ iter = IterStart
    /\ v = None /\ g = None /\ ng = None /\ ng0 = None
    /\ status = "none"
    /\ f_eval = None /\ a = None /\ last_wrt = None /\ last_g = None
    /\ past_g = None /\ past_d = None /\ beta = None
    /\ step = None /\ est_mom1 = None /\ est_mom2 = None
    /\ jacobian = None /\ changes = None

\* 1e-12 is 1 / (CurvTolRoot * CurvTolRoot)
CurvTolRoot == 1000000

\* a curvature test with the tolerance 1 in the place of 1e-12
SDQ_UnboundedUnit(den) == den[1] <= den[2]

\* den <= 1e-12
SDQ_Unbounded(den) == den[1] <= (den[2] \div CurvTolRoot) \div CurvTolRoot

\* ng <= self.eps
SDQ_Optimal(norm, eps) == SLe(norm, Root(eps))

\* a budget test that gives up one iteration early
OutOfIterationsEarly(it, max_iter) == it >= max_iter

\* self.iter > self.max_iter
OutOfIterations(it, max_iter) == it > max_iter

\* a step that is not divided by the curvature
SDQ_StepSizeUnscaled(d, den) == Dot(d, d)

\* a = d.T.dot(d) / den
SDQ_StepSize(d, den) == RDiv(Dot(d, d), den)

\* the output statistics of one pass
SDQ_Report(p, pv) ==
    LET v1 == Function(f, wrt)
        ng1 == Norm(Jacobian(f, wrt))
        known == BelowInf(p.f_star)
    IN  /\ printed' =
               (IF p.verbose THEN <<iter, v1, ng1>> ELSE <<>>)
            \o (IF known /\ p.verbose THEN <<RSub(v1, p.f_star)>> ELSE <<>>)
            \o (IF known /\ p.verbose /\ BelowInf(pv)
                   THEN <<Quotient(RSub(v1, p.f_star), RSub(pv, p.f_star))>>
                   ELSE <<>>)
        /\ prev_v' = IF known THEN v1 ELSE pv

\* the stopping criteria and the new point of one pass
SDQ_Control(p) ==
    LET v1 == Function(f, wrt)
        g1 == Jacobian(f, wrt)
        ng1 == Norm(g1)
        d == VNeg(g1)
        den == Dot(d, MatVec(Hessian(f), d))
    IN  /\ v' = v1 /\ g' = g1 /\ ng' = ng1
        /\ IF SDQ_Optimal(ng1, p.eps)
              THEN Finish("optimal") /\ UNCHANGED <<wrt, iter, a>>
           ELSE IF OutOfIterations(iter, p.max_iter)
              THEN Finish("stopped") /\ UNCHANGED <<wrt, iter, a>>
           ELSE IF SDQ_Unbounded(den)
              THEN Finish("unbounded") /\ UNCHANGED <<wrt, iter, a>>
           ELSE /\ a' = SDQ_StepSize(d, den)
                /\ wrt' = VAdd(wrt, VScale(a', d))
                /\ iter' = iter + 1
                /\ UNCHANGED <<status, pc>>

SDQ_Iterate ==
    /\ alg = "SDQ" /\ pc = "loop"
    /\ SDQ_Report(par, prev_v)
    /\ SDQ_Control(par)
    /\ UNCHANGED <<conf, genv, ng0, f_eval, last_wrt, last_g, dirv, momv>>

(***************************************************************************)
(* The line search, as the optimizers see it: a step a along d from x, the *)
(* point x + a * d, its value and gradient, and the evaluation count       *)
(* advanced by the evaluations made.                                       *)
(***************************************************************************)
LSSteps == { Zero, Half, One }

LineSearch(d, x, count) ==
    { [a |-> s, v |-> Function(f, VAdd(x, VScale(s, d))),
       last_wrt |-> VAdd(x, VScale(s, d)),
       last_g |-> Jacobian(f, VAdd(x, VScale(s, d))),
       f_eval |-> count + k] : s \in LSSteps, k \in 1..LSEvalBound }

MInfSet == { NegInf, Zero }
MinASet == { Zero, Half }

(***************************************************************************)
(* SteepestGradientDescent                                                 *)
(***************************************************************************)
InitSGD ==
    /\ alg = "SGD"
    /\ NoBatches
    /\ NoReport
    /\ f \in Quads
    /\ wrt \in Starts(f.n)
    /\ start = wrt
    /\ par \in [eps : EpsSet, max_f_eval : 1..MaxFEvalBound,
                 m_inf : MInfSet, min_a : MinASet,
                 f_star : FStarsSGD, verbose : BOOLEAN]
    /\ pc = "start"
    /\ iter = IterStart
    /\ v = None /\ g = None /\ ng = None /\ ng0 = None
    /\ status = "none"
    /\ f_eval = None /\ a = None /\ last_wrt = None /\ last_g = None
    /\ past_g = None /\ past_d = None /\ beta = None
    /\ step = None /\ est_mom1 = None /\ est_mom2 = None
    /\ jacobian = None /\ changes = None

\* the lines of minimize() before the loop
LS_Start ==
    /\ alg \in {"SGD", "NCG"} /\ pc = "start"
    /\ last_wrt' = Zeros(f.n)
    /\ last_g' = Zeros(f.n)
    /\ f_eval' = 1
    /\ v' = Function(f, wrt)
    /\ g' = Jacobian(f, wrt)
    /\ ng' = Norm(g')
    /\ ng0' = Scale(par.eps, ng')
    /\ prev_v' = IF alg = "SGD" /\ AboveNegInf(par.f_star) THEN PosInf ELSE prev_v
    /\ pc' = "loop"
    /\ UNCHANGED <<conf, genv, printed, status, wrt, iter, a, dirv, momv>>

\* a budget test that allows one evaluation too many
OutOfEvaluationsLate(count, max_f_eval) == count > max_f_eval + 1

\* f_eval > self.max_f_eval
OutOfEvaluations(count, max_f_eval) == count > max_f_eval

\* a step test that lets a step equal to min_a through
StepBelow(s, min_a) == RLt(s, min_a)

\* a <= self.min_a
StepTooSmall(s, min_a) == RLe(s, min_a)

\* v <= self.m_inf
ValueUnbounded(val, m_inf) == RLe(val, m_inf)

\* a commit that takes the gradient of the new point and leaves the point
LS_CommitGradientOnly(r) ==
    /\ a' = r.a /\ v' = r.v /\ last_wrt' = r.last_wrt /\ last_g' = r.last_g
    /\ f_eval' = r.f_eval
    /\ IF RLe(r.a, par.min_a)
          THEN Finish("error") /\ UNCHANGED <<wrt, g, ng, iter>>
       ELSE IF RLe(r.v, par.m_inf)
          THEN Finish("unbounded") /\ UNCHANGED <<wrt, g, ng, iter>>
       ELSE /\ wrt' = wrt
            /\ g' = r.last_g
            /\ ng' = Norm(r.last_g)
            /\ iter' = iter + 1
            /\ UNCHANGED <<status, pc>>

\* what follows the line search: reject the step, or commit the new point
LS_Commit(r) ==
    /\ a' = r.a /\ v' = r.v /\ last_wrt' = r.last_wrt /\ last_g' = r.last_g
    /\ f_eval' = r.f_eval
    /\ IF StepTooSmall(r.a, par.min_a)
          THEN Finish("error") /\ UNCHANGED <<wrt, g, ng, iter>>
       ELSE IF ValueUnbounded(r.v, par.m_inf)
          THEN Finish("unbounded") /\ UNCHANGED <<wrt, g, ng, iter>>
       ELSE /\ wrt' = r.last_wrt
            /\ g' = r.last_g
            /\ ng' = Norm(r.last_g)
            /\ iter' = iter + 1
            /\ UNCHANGED <<status, pc>>

\* a choice that also stops where the value has reached the known optimum
SGD_DecisionGap(p) ==
    IF StopTest(ng, p.eps, ng0) \/ (AboveNegInf(p.f_star) /\ RLe(v, p.f_star))
       THEN "optimal"
    ELSE IF OutOfEvaluations(f_eval, p.max_f_eval) THEN "stopped"
    ELSE "search"

\* the stopping criteria: the status to stop with, or "search" to go on
SGD_Decision(p) ==
    IF StopTest(ng, p.eps, ng0) THEN "optimal"
    ELSE IF OutOfEvaluations(f_eval, p.max_f_eval) THEN "stopped"
    ELSE "search"

\* the stopping criteria, the line search and the new point of one pass
SGD_Control(p) ==
    IF SGD_Decision(p) # "search"
       THEN Finish(SGD_Decision(p)) /\ UNCHANGED <<wrt, iter, v, g, ng, lsv>>
    ELSE \E r \in LineSearch(VNeg(g), wrt, f_eval) : LS_Commit(r)

\* the output statistics of one pass; the step is printed after the line
\* search, in the passes that make one
SGD_Report(p, pv) ==
    LET known == AboveNegInf(p.f_star)
        searched == f_eval' # f_eval
    IN  /\ printed' =
               (IF ~p.verbose THEN <<>>
                ELSE IF known
                   THEN <<f_eval, Quotient(RSub(v, p.f_star),
                                           RMax(RAbs(p.f_star), One)), ng>>
                   ELSE <<f_eval, v, ng>>)
            \o (IF known /\ p.verbose /\ BelowInf(pv)
                   THEN <<Quotient(RSub(v, p.f_star), RSub(pv, p.f_star))>>
                   ELSE <<>>)
            \o (IF p.verbose /\ searched THEN <<a'>> ELSE <<>>)
        /\ prev_v' = IF known THEN v ELSE pv

SGD_Iterate ==
    /\ alg = "SGD" /\ pc = "loop"
    /\ SGD_Control(par)
    /\ SGD_Report(par, prev_v)
    /\ UNCHANGED <<conf, genv, ng0, dirv, momv>>

(***************************************************************************)
(* NonLinearConjugateGradient                                              *)
(***************************************************************************)
\* strictly convex quadratics
QuadsPD ==
    { Quad(<< <<1>> >>, <<0>>),
      Quad(<< <<2>> >>, <<1>>),
      Quad(<< <<1, 0>>, <<0, 1>> >>, <<0, 0>>),
      Quad(<< <<1, 0>>, <<0, 2>> >>, <<0, 0>>) }

WfSet == 0..4
RStartSet == 0..2

InitNCG ==
    /\ alg = "NCG"
    /\ NoBatches
    /\ NoReport
    /\ f \in QuadsPD
    /\ wrt \in Starts(f.n)
    /\ start = wrt
    /\ par \in [eps : EpsSet, max_f_eval : 1..MaxFEvalBound,
                 m_inf : MInfSet, min_a : {Zero}, wf : WfSet, r_start : RStartSet]
    \* the formulae that divide by (g - past_g).T.dot(past_d) (wf = 3, 4)
    \* divide 0 by 0 once d = 0, which an inexact step along an eigenvector
    \* of Q (every direction, in one dimension) leads to: they run from
    \* points off the eigenvectors only
    /\ par.wf \in 3..4 =>
         f = Quad(<< <<1, 0>>, <<0, 2>> >>, <<0, 0>>) /\ wrt = IntVec(<<-1, 1>>)
    /\ pc = "start"
    /\ iter = IterStart
    /\ v = None /\ g = None /\ ng = None /\ ng0 = None
    /\ status = "none"
    /\ f_eval = None /\ a = None /\ last_wrt = None /\ last_g = None
    /\ past_g = None /\ past_d = None /\ beta = None
    /\ step = None /\ est_mom1 = None /\ est_mom2 = None
    /\ jacobian = None /\ changes = None

\* self.r_start > 0 and self.iter % self.n * self.r_start == 0
NCG_Restart(it, n, r_start) == r_start > 0 /\ (it % n) * r_start = 0

\* (ng / np.linalg.norm(past_g)) ** 2
BetaFR(norm, pg) == RDiv(norm[2], Norm(pg)[2])

\* g.T.dot(g - past_g) / np.linalg.norm(past_g) ** 2
BetaPR(grad, pg) == RDiv(Dot(grad, VSub(grad, pg)), Norm(pg)[2])

\* the formulae, with a Polak-Ribiere value that is not clipped at zero
NCG_BetaUnclipped(wf, grad, norm, pg, pd) ==
    CASE wf = 0 -> RMax(RNeg(BetaFR(norm, pg)), RMin(BetaPR(grad, pg), BetaFR(norm, pg)))
      [] wf = 1 -> BetaFR(norm, pg)
      [] wf = 2 -> BetaPR(grad, pg)
      [] wf = 3 -> RDiv(Dot(grad, VSub(grad, pg)), Dot(VSub(grad, pg), pd))
      [] wf = 4 -> RDiv(norm[2], Dot(VSub(grad, pg), pd))

\* the formula chosen by self.wf
NCG_Beta(wf, grad, norm, pg, pd) ==
    CASE wf = 0 -> RMax(RNeg(BetaFR(norm, pg)), RMin(BetaPR(grad, pg), BetaFR(norm, pg)))
      [] wf = 1 -> BetaFR(norm, pg)
      [] wf = 2 -> RMax(BetaPR(grad, pg), Zero)
      [] wf = 3 -> RDiv(Dot(grad, VSub(grad, pg)), Dot(VSub(grad, pg), pd))
      [] wf = 4 -> RDiv(norm[2], Dot(VSub(grad, pg), pd))

\* the search direction of this pass, with the beta it was built from
NCG_Direction ==
    IF iter = 1
      THEN [kind |-> "first", val |-> Zero, d |-> VNeg(g)]
    ELSE LET b == IF NCG_Restart(iter, f.n, par.r_start)
                    THEN [kind |-> "res", val |-> Zero]
                    ELSE [kind |-> "formula",
                          val |-> NCG_Beta(par.wf, g, ng, past_g, past_d)]
         IN  [kind |-> b.kind, val |-> b.val,
              d |-> IF b.val # Zero THEN VAdd(VNeg(g), VScale(b.val, past_d))
                    ELSE VNeg(g)]

NCG_Iterate ==
    /\ alg = "NCG" /\ pc = "loop"
    /\ IF StopTest(ng, par.eps, ng0)
          THEN Finish("optimal") /\ UNCHANGED <<wrt, iter, v, g, ng, lsv, dirv>>
       ELSE IF OutOfEvaluations(f_eval, par.max_f_eval)
          THEN Finish("stopped") /\ UNCHANGED <<wrt, iter, v, g, ng, lsv, dirv>>
       ELSE LET dir == NCG_Direction
            IN  /\ beta' = [kind |-> dir.kind, val |-> dir.val]
                /\ past_g' = g
                /\ past_d' = dir.d
                /\ \E r \in LineSearch(dir.d, wrt, f_eval) : LS_Commit(r)
    /\ UNCHANGED <<conf, genv, repv, ng0, momv>>

(***************************************************************************)
(* HeavyBallGradient                                                       *)
(***************************************************************************)
BetaSet == { Half, <<-1, 2>> }

\* the value of self.iter at the first pass of HeavyBallGradient's loop
HBGIterStart == 0

InitHBG ==
    /\ alg = "HBG"
    /\ NoBatches
    /\ NoReport
    /\ f \in QuadsPD
    /\ wrt \in Starts(f.n)
    /\ start = wrt
    /\ par \in [beta : BetaSet, eps : EpsSet, max_iter : 0..MaxIterBound,
                 max_f_eval : 1..MaxFEvalBound, m_inf : MInfSet, min_a : MinASet]
    \* the scaled momentum needs the norms as numbers: one dimension
    /\ RLt(par.beta, Zero) => f.n = 1
    /\ pc = "start"
    /\ iter = HBGIterStart
    /\ v = None /\ g = None /\ ng = None /\ ng0 = None
    /\ status = "none"
    /\ f_eval = None /\ a = None /\ last_wrt = None /\ last_g = None
    /\ past_g = None /\ past_d = None /\ beta = None
    /\ step = None /\ est_mom1 = None /\ est_mom2 = None
    /\ jacobian = None /\ changes = None

\* the lines of minimize() before the loop
HBG_Start ==
    /\ alg = "HBG" /\ pc = "start"
    /\ last_wrt' = Zeros(f.n)
    /\ last_g' = Zeros(f.n)
    /\ f_eval' = 1
    /\ past_d' = Zeros(f.n)
    /\ pc' = "loop"
    /\ UNCHANGED <<conf, genv, repv, status, point, a, past_g, beta, momv>>

ISqrt(n) == CHOOSE k \in 0..n : k * k = n

\* the number a signed root is, when its square is the square of a rational
Number(r) == <<r[1] * ISqrt(r[2][1]), ISqrt(r[2][2])>>

\* beta_i: self.beta, or -self.beta * ng / np.linalg.norm(past_d)
HBG_Beta(b, norm, pd) ==
    IF RLt(Zero, b) THEN b
    ELSE RDiv(RMul(RNeg(b), Number(norm)), Number(Norm(pd)))

\* a direction that is never deflected
HBG_DirectionPlain(it, b, grad, norm, pd) == VNeg(grad)

\* the deflected gradient direction
HBG_Direction(it, b, grad, norm, pd) ==
    IF it = 0 THEN VNeg(grad)
    ELSE VAdd(VNeg(grad), VScale(HBG_Beta(b, norm, pd), pd))

\* what follows the line search: reject the step, or commit the new point
HBG_Commit(r) ==
    /\ a' = r.a /\ v' = r.v /\ last_wrt' = r.last_wrt /\ last_g' = r.last_g
    /\ f_eval' = r.f_eval
    /\ IF StepTooSmall(r.a, par.min_a)
          THEN Finish("error") /\ UNCHANGED <<wrt, past_d, iter>>
       ELSE IF ValueUnbounded(r.v, par.m_inf)
          THEN Finish("unbounded") /\ UNCHANGED <<wrt, past_d, iter>>
       ELSE /\ past_d' = VSub(r.last_wrt, wrt)
            /\ wrt' = r.last_wrt
            /\ iter' = iter + 1
            /\ UNCHANGED <<status, pc>>

HBG_Iterate ==
    /\ alg = "HBG" /\ pc = "loop"
    /\ g' = Jacobian(f, wrt)
    /\ ng' = Norm(g')
    /\ ng0' = Scale(par.eps, ng')
    /\ IF StopTest(ng', par.eps, ng0')
          THEN /\ Finish("optimal") /\ v' = Function(f, wrt)
               /\ UNCHANGED <<wrt, iter, lsv, past_d>>
       ELSE IF OutOfIterations(iter, par.max_iter) \/ OutOfEvaluations(f_eval, par.max_f_eval)
          THEN /\ Finish("stopped") /\ v' = Function(f, wrt)
               /\ UNCHANGED <<wrt, iter, lsv, past_d>>
       ELSE \E r \in LineSearch(HBG_Direction(iter, par.beta, g', ng', past_d),
                                 wrt, f_eval) : HBG_Commit(r)
    /\ UNCHANGED <<conf, genv, repv, past_g, beta, momv>>

(***************************************************************************)
(* GradientDescent                                                         *)
(***************************************************************************)
MomentumTypes == { "none", "standard", "nesterov" }
StepRates == { Half, One }
Momenta == { Half }
\* what __init__ may be given, acceptable or not
GivenStepRates == StepRates \cup { <<-1, 2>> }
GivenMomenta == Momenta \cup { One, <<-1, 2>> }
TypeNames == MomentumTypes \cup { "other" }

\* the checks of __init__, none of which raised
GD_Accepted(step_rate, momentum, momentum_type) ==
    /\ ~RLt(step_rate, Zero)
    /\ ~RLt(momentum, Zero)
    /\ momentum_type \in MomentumTypes

InitGD ==
    /\ alg = "GD"
    /\ NoBatches
    /\ NoReport
    /\ f \in Quads
    /\ wrt \in Starts(f.n)
    /\ start = wrt
    /\ par \in [eps : EpsSet \cup {One}, max_iter : 0..MaxIterBound,
                 step_rate : GivenStepRates, momentum : GivenMomenta,
                 momentum_type : TypeNames]
    \* a ValueError raised by __init__ leaves no optimizer to run
    /\ pc = IF GD_Accepted(par.step_rate, par.momentum, par.momentum_type)
               THEN "start" ELSE "raised"
    /\ iter = IterStart
    /\ v = None /\ g = None /\ ng = None /\ ng0 = None
    /\ status = "none"
    /\ f_eval = None /\ a = None /\ last_wrt = None /\ last_g = None
    /\ past_g = None /\ past_d = None /\ beta = None
    /\ step = Zeros(f.n) /\ est_mom1 = None /\ est_mom2 = None
    /\ jacobian = None /\ changes = None

\* the lines of minimize() before the loop
GD_Start ==
    /\ alg = "GD" /\ pc = "start"
    /\ f_eval' = 1
    /\ v' = Function(f, wrt)
    /\ g' = Jacobian(f, wrt)
    /\ ng' = Norm(g')
    /\ ng0' = Scale(par.eps, ng')
    /\ pc' = "loop"
    /\ UNCHANGED <<conf, genv, repv, status, wrt, iter, a, last_wrt, last_g, dirv, momv>>

\* the momentum branches: the new point and the step of this pass
GD_Update(type, x, step_m1) ==
    CASE type = "standard" ->
           LET st == VAdd(VScale(par.momentum, step_m1),
                          VScale(par.step_rate, Jacobian(f, x)))
           IN  [wrt |-> VSub(x, st), step |-> st]
      [] type = "nesterov" ->
           LET big_jump == VScale(par.momentum, step_m1)
               x1 == VSub(x, big_jump)
               correction == VScale(par.step_rate, Jacobian(f, x1))
           IN  [wrt |-> VSub(x1, correction), step |-> VAdd(big_jump, correction)]
      [] type = "none" ->
           LET st == VScale(par.step_rate, Jacobian(f, x))
           IN  [wrt |-> VSub(x, st), step |-> st]

\* the norm the stopping test of GradientDescent reads: ng
GD_TestedNorm == ng

GD_Iterate ==
    /\ alg = "GD" /\ pc = "loop"
    /\ LET u == GD_Update(par.momentum_type, wrt, step)
       IN  /\ wrt' = u.wrt
           /\ IF StopTest(GD_TestedNorm, par.eps, ng0)
                 THEN Finish("optimal") /\ UNCHANGED <<step, iter>>
              ELSE IF OutOfIterations(iter, par.max_iter)
                 THEN Finish("stopped") /\ UNCHANGED <<step, iter>>
              ELSE /\ step' = u.step
                   /\ iter' = iter + 1
                   /\ UNCHANGED <<status, pc>>
    /\ UNCHANGED <<conf, genv, repv, v, g, ng, ng0, lsv, dirv, est_mom1, est_mom2, jacobian, changes>>

(***************************************************************************)
(* The stochastic optimizers AdaMax and RProp.  The objectives here take   *)
(* no batch: every element of self.args / self.batches is the same, and    *)
(* the iterator does not end.                                              *)
(***************************************************************************)
\* the value of self.iter at the first pass of a stochastic optimizer's loop
StochIterStart == 0

RECURSIVE RPow(_, _)
RPow(p, k) == IF k = 0 THEN One ELSE RMul(p, RPow(p, k - 1))

\* a gradient taken at the point as it is, whatever the momentum type
ShiftedNever(type, x, step1) == x

\* the point the gradient is taken at: shifted by step1 for nesterov
Shifted(type, x, step1) == IF type = "nesterov" THEN VSub(x, step1) ELSE x

\* the point after the update, from the (shifted) point x1
Moved(type, x1, step1, step2) ==
    IF type = "standard" THEN VSub(x1, VAdd(step1, step2)) ELSE VSub(x1, step2)

\* a stored step that leaves the momentum term out
StoredOwn(type, step1, step2) == step2

\* the step stored in self.step
Stored(type, step1, step2) ==
    IF type \in {"standard", "nesterov"} THEN VAdd(step1, step2) ELSE step2

\* objectives whose coordinates AdaMax moves alike: its quotients stay small
QuadsAdaMax ==
    { Quad(<< <<1>> >>, <<0>>),
      Quad(<< <<2>> >>, <<1>>),
      Quad(<< <<0>> >>, <<1>>),
      Quad(<< <<-1>> >>, <<0>>),
      Quad(<< <<1, 0>>, <<0, 1>> >>, <<0, 0>>) }

\* what AdaMax.__init__ may be given, acceptable or not
GivenBeta1s == { Zero, Half, One }
GivenBeta2s == { Half, One }
GivenOffsets == { <<1, 4>>, Zero }

\* checks of __init__ that let offset = 0 through
AdaMax_AcceptedAnyOffset(beta1, beta2, offset) ==
    /\ RLe(Zero, beta1) /\ RLt(beta1, One)
    /\ RLe(Zero, beta2) /\ RLt(beta2, One)
    /\ RLe(Zero, offset)

\* the checks of __init__, none of which raised
AdaMax_Accepted(beta1, beta2, offset) ==
    /\ RLe(Zero, beta1) /\ RLt(beta1, One)
    /\ RLe(Zero, beta2) /\ RLt(beta2, One)
    /\ RLt(Zero, offset)

InitAdaMax ==
    /\ alg = "AdaMax"
    /\ NoBatches
    /\ NoReport
    /\ f \in QuadsAdaMax
    /\ wrt \in Starts(f.n)
    /\ start = wrt
    /\ par \in [eps : EpsSet, max_iter : 0..MaxIterBound, step_size : {Half},
                 momentum_type : MomentumTypes, momentum : Momenta,
                 beta1 : GivenBeta1s, beta2 : GivenBeta2s, offset : GivenOffsets]
    \* on a curved objective the quotients of a third update no longer fit
    \* the 32-bit integers of the model checker: only the linear objective
    \* runs beyond two updates
    /\ f.Q # IntMat(<< <<0>> >>) => par.max_iter <= 2
    \* a ValueError raised by __init__ leaves no optimizer to run
    /\ pc = IF AdaMax_Accepted(par.beta1, par.beta2, par.offset)
               THEN "loop" ELSE "raised"
    /\ iter = StochIterStart
    /\ v = None /\ g = None /\ ng = None /\ ng0 = None
    /\ status = "none"
    /\ f_eval = None /\ a = None /\ last_wrt = None /\ last_g = None
    /\ past_g = None /\ past_d = None /\ beta = None
    /\ step = Zeros(f.n) /\ est_mom1 = Zeros(f.n) /\ est_mom2 = Zeros(f.n)
    /\ jacobian = None /\ changes = None

\* self.beta1 * est_mom1_m1 + (1. - self.beta1) * g
AdaMax_Mom1(m1, grad) ==
    VAdd(VScale(par.beta1, m1), VScale(RSub(One, par.beta1), grad))

\* np.maximum(self.beta2 * est_mom2_m1, np.abs(g))
AdaMax_Mom2(m2, grad) ==
    [i \in 1..Len(grad) |-> RMax(RMul(par.beta2, m2[i]), RAbs(grad[i]))]

\* a step built on the biased 1st moment estimate
AdaMax_Step2Biased(m1, m2, t) ==
    [i \in 1..Len(m1) |->
        RDiv(RMul(par.step_size, m1[i]), RAdd(m2[i], par.offset))]

\* self.step_size * est_mom1_crt / (self.est_mom2 + self.offset)
AdaMax_Step2(m1, m2, t) ==
    [i \in 1..Len(m1) |->
        RDiv(RMul(par.step_size, RDiv(m1[i], RSub(One, RPow(par.beta1, t)))),
             RAdd(m2[i], par.offset))]

AdaMax_Iterate ==
    /\ alg = "AdaMax" /\ pc = "loop"
    /\ v' = Function(f, wrt)
    /\ IF iter >= par.max_iter
          THEN /\ Finish("stopped") /\ g' = Jacobian(f, wrt)
               /\ UNCHANGED <<wrt, iter, step, est_mom1, est_mom2>>
       ELSE LET t == iter + 1
                step1 == VScale(par.momentum, step)
                x1 == Shifted(par.momentum_type, wrt, step1)
                step2 == AdaMax_Step2(est_mom1', est_mom2', t)
            IN  /\ g' = Jacobian(f, x1)
                /\ est_mom1' = AdaMax_Mom1(est_mom1, g')
                /\ est_mom2' = AdaMax_Mom2(est_mom2, g')
                /\ wrt' = Moved(par.momentum_type, x1, step1, step2)
                /\ step' = Stored(par.momentum_type, step1, step2)
                /\ iter' = iter + 1
                /\ UNCHANGED <<status, pc>>
    /\ UNCHANGED <<conf, genv, repv, ng, ng0, lsv, dirv, jacobian, changes>>

InitRProp ==
    /\ alg = "RProp"
    /\ NoBatches
    /\ NoReport
    /\ f \in Quads
    /\ wrt \in Starts(f.n)
    /\ start = wrt
    \* max_step is not checked against min_step: 1/8 is below it
    /\ par \in [eps : EpsSet, max_iter : 0..(MaxIterBound + 1),
                 step_size : {Half, One},
                 min_step : {<<1, 4>>}, step_shrink : {Half}, step_grow : {<<2, 1>>},
                 max_step : {One, <<1, 8>>},
                 momentum_type : MomentumTypes, momentum : Momenta]
    /\ pc = "loop"
    /\ iter = StochIterStart
    /\ v = None /\ g = None /\ ng = None /\ ng0 = None
    /\ status = "none"
    /\ f_eval = None /\ a = None /\ last_wrt = None /\ last_g = None
    /\ past_g = None /\ past_d = None /\ beta = None
    /\ step = Zeros(f.n) /\ est_mom1 = None /\ est_mom2 = None
    /\ jacobian = Zeros(f.n) /\ changes = Zeros(f.n)

\* step magnitudes shrunk where they should grow, and grown where shrink
RProp_ChangesSwapped(ch, g_m1, grad) ==
    [i \in 1..Len(ch) |->
        LET grad_prod == RMul(g_m1[i], grad[i])
            c == IF RLt(Zero, grad_prod) THEN RMul(ch[i], par.step_shrink)
                 ELSE IF RLt(grad_prod, Zero) THEN RMul(ch[i], par.step_grow)
                 ELSE ch[i]
        IN  RMin(RMax(c, par.min_step), par.max_step)]

\* step magnitudes that are not clipped where the gradient product is zero
RProp_ChangesUnclipped(ch, g_m1, grad) ==
    [i \in 1..Len(ch) |->
        LET grad_prod == RMul(g_m1[i], grad[i])
        IN  IF RLt(Zero, grad_prod)
               THEN RMin(RMax(RMul(ch[i], par.step_grow), par.min_step), par.max_step)
            ELSE IF RLt(grad_prod, Zero)
               THEN RMin(RMax(RMul(ch[i], par.step_shrink), par.min_step), par.max_step)
            ELSE ch[i]]

\* the step magnitudes: grown or shrunk by the sign of grad_prod, then clipped
RProp_Changes(ch, g_m1, grad) ==
    [i \in 1..Len(ch) |->
        LET grad_prod == RMul(g_m1[i], grad[i])
            c == IF RLt(Zero, grad_prod) THEN RMul(ch[i], par.step_grow)
                 ELSE IF RLt(grad_prod, Zero) THEN RMul(ch[i], par.step_shrink)
                 ELSE ch[i]
        IN  RMin(RMax(c, par.min_step), par.max_step)]

\* self.changes * np.sign(self.jacobian)
RProp_Step2(ch, grad) == [i \in 1..Len(ch) |-> RMul(ch[i], <<RSign(grad[i]), 1>>)]

RProp_Iterate ==
    /\ alg = "RProp" /\ pc = "loop"
    /\ v' = Function(f, wrt)
    /\ g' = Jacobian(f, wrt)
    /\ IF iter >= par.max_iter
          THEN /\ Finish("stopped")
               /\ UNCHANGED <<wrt, iter, step, jacobian, changes>>
       ELSE LET step1 == VScale(par.momentum, step)
                x1 == Shifted(par.momentum_type, wrt, step1)
                step2 == RProp_Step2(changes', jacobian')
            IN  /\ jacobian' = Jacobian(f, x1)
                /\ changes' = RProp_Changes(changes, jacobian, jacobian')
                /\ wrt' = Moved(par.momentum_type, x1, step1, step2)
                /\ step' = Stored(par.momentum_type, step1, step2)
                /\ iter' = iter + 1
                /\ UNCHANGED <<status, pc>>
    /\ UNCHANGED <<conf, genv, repv, ng, ng0, lsv, dirv, est_mom1, est_mom2>>

(***************************************************************************)
(* ConjugateGradient                                                       *)
(***************************************************************************)
InitCG ==
    /\ alg = "CG"
    /\ NoBatches
    /\ NoReport
    /\ f \in QuadsPD
    /\ wrt \in Starts(f.n)
    /\ start = wrt
    /\ par \in [wf : WfSet, r_start : RStartSet, eps : EpsSet,
                 max_f_eval : 1..MaxFEvalBound]
    /\ pc = "start"
    /\ iter = IterStart
    /\ v = None /\ g = None /\ ng = None /\ ng0 = None
    /\ status = "none"
    /\ f_eval = None /\ a = None /\ last_wrt = None /\ last_g = None
    /\ past_g = None /\ past_d = None /\ beta = None
    /\ step = None /\ est_mom1 = None /\ est_mom2 = None
    /\ jacobian = None /\ changes = None

\* return NotImplementedError: the run is over, no status was assigned
CG_Minimize ==
    /\ alg = "CG" /\ pc = "start"
    /\ pc' = "done"
    /\ UNCHANGED <<conf, genv, repv, status, point, lsv, dirv, momv>>

(***************************************************************************)
(* utils.iter_mini_batches: a generator; one action is one next() on it.   *)
(* The samples of X and y are numbered 1 .. n, so that a batch shows which *)
(* samples it holds.                                                        *)
(***************************************************************************)
Samples(n) == [i \in 1..n |-> i]

InitBatches ==
    /\ alg = "batches"
    /\ \E n, m \in 1..MaxSamples, b \in 1..(MaxSamples + 1) :
          par = [Xy |-> <<Samples(n), Samples(m)>>, batch_size |-> b]
    /\ pc = "start"
    /\ n_batches = None /\ idx = None /\ pos = None /\ batch = None /\ out = None
    /\ NoReport
    /\ f = None /\ start = None /\ wrt = None /\ iter = None
    /\ v = None /\ g = None /\ ng = None /\ ng0 = None
    /\ status = "none"
    /\ f_eval = None /\ a = None /\ last_wrt = None /\ last_g = None
    /\ past_g = None /\ past_d = None /\ beta = None
    /\ step = None /\ est_mom1 = None /\ est_mom2 = None
    /\ jacobian = None /\ changes = None

\* a number of batches that leaves the rest of the division out
NBatchesFloor(len, batch_size) == len \div batch_size

\* n_batches, rest = divmod(len(Xy[0]), batch_size); if rest: n_batches += 1
NBatches(len, batch_size) ==
    IF len % batch_size # 0 THEN len \div batch_size + 1 ELSE len \div batch_size

\* a slice that starts one place late
SliceLate(param, from, to) ==
    SubSeq(param, from + 2, IF to < Len(param) THEN to ELSE Len(param))

\* param[slice(start, stop)]: a stop past the end is cut to the end
Slice(param, from, to) ==
    SubSeq(param, from + 1, IF to < Len(param) THEN to ELSE Len(param))

\* random.shuffle(idx): any order of the indices 0 .. k - 1
Shuffles(k) ==
    { s \in [1..k -> 0..(k - 1)] : \A i, j \in 1..k : i # j => s[i] # s[j] }

\* the list yielded for batch index i
Yield(i) ==
    [param \in 1..2 |->
        Slice(par.Xy[param], i * par.batch_size, (i + 1) * par.batch_size)]

\* the first next(): the body runs from its top to the first yield
Batches_First ==
    /\ alg = "batches" /\ pc = "start"
    /\ IF Len(par.Xy[1]) # Len(par.Xy[2]) \/ par.batch_size > Len(par.Xy[1])
          THEN pc' = "raised" /\ UNCHANGED genv
       ELSE /\ n_batches' = NBatches(Len(par.Xy[1]), par.batch_size)
            /\ idx' \in Shuffles(n_batches')
            /\ pos' = 1
            /\ batch' = Yield(idx'[1])
            /\ out' = <<[i |-> idx'[1], X |-> batch'[1]]>>
            /\ pc' = "yielded"
    /\ UNCHANGED <<conf, repv, status, point, lsv, dirv, momv>>

\* a later next(): on with the for loop, or a new shuffle at its end
Batches_Next ==
    /\ alg = "batches" /\ pc = "yielded"
    /\ IF pos < Len(idx)
          THEN /\ pos' = pos + 1
               /\ batch' = Yield(idx[pos'])
               /\ out' = Append(out, [i |-> idx[pos'], X |-> batch'[1]])
               /\ UNCHANGED idx
       ELSE /\ idx' \in Shuffles(n_batches)
            /\ pos' = 1
            /\ batch' = Yield(idx'[1])
            /\ out' = <<[i |-> idx'[1], X |-> batch'[1]]>>
    /\ UNCHANGED <<conf, repv, pc, status, point, lsv, dirv, momv, n_batches>>

(***************************************************************************)
(* What minimize() returns, once the run is over.                          *)
(***************************************************************************)
Returned ==
    CASE alg = "CG" -> <<"NotImplementedError">>
      [] alg \in {"HBG", "AdaMax", "RProp"} -> <<wrt, v, status>>
      [] OTHER -> <<wrt, status>>

Init ==
    \/ InitBatches
    \/ InitCG
    \/ InitSDQ
    \/ InitSGD
    \/ InitNCG
    \/ InitHBG
    \/ InitGD
    \/ InitAdaMax
    \/ InitRProp

Next ==
    \/ Batches_First
    \/ Batches_Next
    \/ CG_Minimize
    \/ SDQ_Iterate
    \/ LS_Start
    \/ SGD_Iterate
    \/ NCG_Iterate
    \/ HBG_Start
    \/ HBG_Iterate
    \/ GD_Start
    \/ GD_Iterate
    \/ AdaMax_Iterate
    \/ RProp_Iterate

Spec == Init /\ [][Next]_vars


(***************************************************************************)
(* Properties.                                                             *)
(*                                                                         *)
(* They are stated on the objective itself: the gradient is recomputed     *)
(* from f at the point in question, never read from g or ng.               *)
(***************************************************************************)
GradNorm(x) == Norm(Jacobian(f, x))

\* the documented threshold: eps, or (- eps) * || first gradient || if eps < 0
Threshold ==
    IF RLt(par.eps, Zero)
       THEN SMul(Root(RNeg(par.eps)), GradNorm(start))
       ELSE Root(par.eps)

WithinThreshold(x) == SLe(GradNorm(x), Threshold)

\* C1: when SDQ, SGD or NCG return 'optimal' under a non-negative eps, the
\* gradient norm at the point returned is at most eps.
C1_OptimalMeansGradientWithinEps ==
    (alg \in {"SDQ", "SGD", "NCG"} /\ status = "optimal" /\ RLe(Zero, par.eps))
        => SLe(GradNorm(wrt), Root(par.eps))

\* 'optimal' after at least one line search, at a point short of the minimum
C1_Witness ==
    /\ alg = "NCG" /\ status = "optimal" /\ par.eps = Half
    /\ iter > IterStart
    /\ GradNorm(wrt)[1] = 1

\* C2: the point GradientDescent returns with 'optimal' has a gradient norm
\* within the threshold, the test being made on the current iterate.
C2_GDOptimalMeansGradientWithinThreshold ==
    (alg = "GD" /\ status = "optimal") => WithinThreshold(wrt)

\* C3: AdaMax and RProp return 'optimal' when the gradient norm at the
\* current point meets the threshold: a run that ends at such a point does
\* not end 'stopped'.
C3_StochasticThresholdMetMeansOptimal ==
    (alg \in {"AdaMax", "RProp"} /\ pc = "done" /\ WithinThreshold(wrt))
        => status = "optimal"

Curvature(x) ==
    LET d == VNeg(Jacobian(f, x)) IN Dot(d, MatVec(f.Q, d))

\* C5 as written: SDQ started where the curvature along d = -g is zero or
\* negative returns 'unbounded'.
C5_NonPositiveCurvatureUnbounded ==
    [][(alg = "SDQ" /\ pc = "loop" /\ iter = IterStart
           /\ RLe(Curvature(start), Zero))
          => status' = "unbounded"]_vars

\* C5 amended: SDQ started where the curvature along d = -g is zero or
\* negative returns 'unbounded', provided that the gradient norm at the
\* start exceeds eps and that the iteration budget is not already spent.
C5_NonPositiveCurvatureUnboundedIfRunning ==
    [][(alg = "SDQ" /\ pc = "loop" /\ iter = IterStart
           /\ RLe(Curvature(start), Zero)
           /\ ~SLe(GradNorm(start), Root(par.eps))
           /\ iter <= par.max_iter)
          => (status' = "unbounded" /\ pc' = "done" /\ wrt' = start)]_vars

C5_Witness ==
    /\ alg = "SDQ" /\ status = "unbounded" /\ iter = IterStart
    /\ RLe(Curvature(start), Zero)

\* Q is symmetric positive definite (n <= 2, by the leading minors)
PositiveDefinite(Q) ==
    /\ \A i, j \in 1..Len(Q) : Q[i][j] = Q[j][i]
    /\ RLt(Zero, Q[1][1])
    /\ Len(Q) = 2 =>
           RLt(Zero, RSub(RMul(Q[1][1], Q[2][2]), RMul(Q[1][2], Q[2][1])))

C7_Run ==
    /\ alg = "SDQ"
    /\ f = Quad(<< <<1, 0>>, <<0, 1>> >>, <<0, 0>>)
    /\ start = IntVec(<<-1, 1>>)
    /\ par.eps \in {Zero, Half}
    /\ par.max_iter >= 1

\* C7: that run returns the point (0, 0) with 'optimal', the iteration
\* counter having advanced by exactly 1.
C7_IdentityOneIteration ==
    C7_Run =>
        /\ pc = "done" => /\ status = "optimal"
                          /\ wrt = IntVec(<<0, 0>>)
                          /\ iter = IterStart + 1
        /\ pc = "loop" /\ iter # IterStart =>
               wrt = IntVec(<<0, 0>>) /\ iter = IterStart + 1

C7_Witness == C7_Run /\ pc = "done" /\ wrt = IntVec(<<0, 0>>)

\* C8: under a negative eps, SGD and NCG stop with 'optimal' exactly when
\* the gradient norm of the current point is at most |eps| times the gradient
\* norm at the start; the reference norm is fixed before the loop.
C8_RelativeTestOnFirstGradient ==
    [][(alg \in {"SGD", "NCG"} /\ pc = "loop" /\ RLt(par.eps, Zero))
          => /\ status' = "optimal" <=> WithinThreshold(wrt)
             /\ ng0' = ng0
             /\ ng0 = SNeg(GradNorm(start))]_vars

\* a relative stop away from the minimum, after a line search
C8_Witness ==
    /\ alg = "SGD" /\ status = "optimal" /\ RLt(par.eps, Zero)
    /\ iter > IterStart
    /\ GradNorm(wrt)[1] = 1

\* C9: under a negative eps, HBG stops with 'optimal' when the gradient norm
\* is at most |eps| times the norm of the first gradient: a run that ends at
\* such a point ends 'optimal'.
C9_HBGRelativeTestOnFirstGradient ==
    (alg = "HBG" /\ RLt(par.eps, Zero) /\ pc = "done" /\ WithinThreshold(wrt))
        => status = "optimal"

\* C10: with r_start > 0, NCG restarts at the iterations after the first
\* whose counter is a multiple of n * r_start, and at no other.
C10_RestartEveryNTimesRStart ==
    [][(alg = "NCG" /\ pc = "loop" /\ f_eval' # f_eval
           /\ par.r_start > 0 /\ iter # IterStart)
          => (beta'.kind = "res" <=> iter % (f.n * par.r_start) = 0)]_vars

\* C11: in SGD and NCG the evaluation counter starts at 1 and is handed to
\* every line search, which hands it back advanced; a pass ends 'stopped'
\* exactly when the counter exceeds max_f_eval at the loop top and the
\* gradient test fails; the line searches of a run, hence its iterations,
\* never number more than max_f_eval.
C11_EvaluationBudget ==
    [][(alg \in {"SGD", "NCG"})
          => /\ pc = "start" => f_eval' = 1
             /\ pc = "loop" =>
                  /\ status' = "stopped" <=>
                        (f_eval > par.max_f_eval /\ ~WithinThreshold(wrt))
                  /\ f_eval' # f_eval =>
                        /\ f_eval' > f_eval
                        /\ (iter - IterStart) + 1 <= par.max_f_eval
                  /\ iter' - IterStart <= par.max_f_eval]_vars

\* the budget spent by as many iterations as it allows
C11_Witness ==
    /\ alg = "SGD" /\ status = "stopped"
    /\ par.max_f_eval = MaxFEvalBound
    /\ iter - IterStart = par.max_f_eval

\* C12: HeavyBallGradient, started with the iteration counter at 0, commits
\* at most max_iter iterations in a run.
C12_HBGCommitsAtMostMaxIter ==
    alg = "HBG" => iter - HBGIterStart <= par.max_iter

\* C13: whatever minimize() returns is a tuple (x, status) or
\* (x, f(x), status) whose status is 'optimal', 'unbounded', 'stopped' or
\* 'error', for every one of the algorithms.
C13_ReturnsPointAndStatus ==
    pc = "done" =>
        /\ Len(Returned) \in {2, 3}
        /\ Returned[Len(Returned)] \in {"optimal", "unbounded", "stopped", "error"}

\* C14: whatever the terminal status, the value HeavyBallGradient returns as
\* second component is the objective value at the point it returns as first.
C14_HBGReturnsValueOfPoint ==
    (alg = "HBG" /\ pc = "done") => Returned[2] = Function(f, Returned[1])

\* C15: GradientDescent constructed with a momentum outside [0, 1), with a
\* negative step_rate or with a momentum_type other than none, standard or
\* nesterov raises at construction: no run has such a value.
C15_GDConstructionRejects ==
    (alg = "GD" /\ (\/ RLt(par.momentum, Zero)
                    \/ RLe(One, par.momentum)
                    \/ RLt(par.step_rate, Zero)
                    \/ par.momentum_type \notin {"none", "standard", "nesterov"}))
        => pc = "raised"

\* how many times sample s was yielded in the present pass over idx
TimesYielded(s) ==
    Cardinality({ jk \in (1..Len(out)) \X (1..MaxSamples + 1) :
                     jk[2] <= Len(out[jk[1]].X) /\ out[jk[1]].X[jk[2]] = s })

\* C16: for X and y of equal length n and 1 <= batch_size <= n the stream of
\* iter_mini_batches never ends and runs in epochs of ceil(n / batch_size)
\* batches; within an epoch each batch index, hence each sample, is yielded
\* exactly once, and the X and y parts of a batch cover the same range.
C16_EpochsPartitionTheSamples ==
    (alg = "batches" /\ pc = "yielded") =>
        LET n == Len(par.Xy[1])
            b == par.batch_size
        IN  /\ Len(par.Xy[2]) = n /\ 1 <= b /\ b <= n
            /\ n_batches * b >= n /\ (n_batches - 1) * b < n
            /\ Len(out) = pos /\ pos <= n_batches
            /\ \A j, k \in 1..Len(out) : j # k => out[j].i # out[k].i
            /\ \A s \in 1..n : TimesYielded(s) <= 1
            /\ pos = n_batches =>
                  /\ { out[j].i : j \in 1..Len(out) } = 0..(n_batches - 1)
                  /\ \A s \in 1..n : TimesYielded(s) = 1
            /\ batch[1] = batch[2]
            /\ ENABLED Batches_Next

\* an epoch of two batches over, the second index having come first
C16_Witness ==
    /\ alg = "batches" /\ pc = "yielded"
    /\ n_batches = 2 /\ pos = 2 /\ idx = <<1, 0>>
    /\ Len(par.Xy[1]) % par.batch_size # 0

C18_Magnitude(old, prev, new) ==
    LET c == IF RSign(prev) * RSign(new) < 0 THEN RMul(old, par.step_shrink)
             ELSE IF RSign(prev) * RSign(new) > 0 THEN RMul(old, par.step_grow)
             ELSE old
    IN  RMax(par.min_step, RMin(par.max_step, c))

\* one iteration of RProp follows the rule of C18 in every coordinate
C18_Rule ==
    \A i \in 1..f.n :
        /\ changes'[i] = C18_Magnitude(changes[i], jacobian[i], jacobian'[i])
        /\ par.momentum_type = "none" =>
              /\ jacobian' = Jacobian(f, wrt)
              /\ wrt'[i] = RSub(wrt[i], RMul(changes'[i], <<RSign(jacobian'[i]), 1>>))

\* C18 as written: in one RProp iteration every coordinate's step magnitude
\* becomes max(min_step, min(max_step, old * step_shrink)) on a sign change
\* of the gradient, max(min_step, min(max_step, old * step_grow)) on a kept
\* sign, is only clamped on a zero product, and with momentum_type 'none'
\* the coordinate moves by the magnitude times the sign of the new gradient.
C18_RPropStepRule ==
    [][(alg = "RProp" /\ pc = "loop" /\ iter' # iter) => C18_Rule]_vars

\* C18 amended: the same, for min_step <= max_step.
C18_RPropStepRuleOrdered ==
    [][(alg = "RProp" /\ pc = "loop" /\ iter' # iter
           /\ RLe(par.min_step, par.max_step)) => C18_Rule]_vars

\* grown once, then shrunk on the change of sign of the third iteration
C18_Witness ==
    /\ alg = "RProp" /\ par.momentum_type = "none"
    /\ RLe(par.min_step, par.max_step)
    /\ f = Quad(<< <<2>> >>, <<1>>) /\ start = IntVec(<<0>>)
    /\ iter = StochIterStart + 3
    /\ changes = << <<1, 4>> >>

\* C19: with min_step <= max_step every step magnitude lies in
\* [min_step, max_step] after every completed RProp iteration, and the
\* magnitude the first iteration uses is min_step, whatever step_size is.
C19_RPropMagnitudesClamped ==
    (alg = "RProp" /\ RLe(par.min_step, par.max_step) /\ iter > StochIterStart)
        => \A i \in 1..f.n :
              /\ RLe(par.min_step, changes[i]) /\ RLe(changes[i], par.max_step)
              /\ iter = StochIterStart + 1 =>
                    /\ changes[i] = par.min_step
                    /\ par.momentum_type = "none" /\ jacobian[i] # Zero =>
                          RAbs(RSub(wrt[i], start[i])) = par.min_step

\* the first iteration done with a step_size that is not min_step
C19_Witness ==
    /\ alg = "RProp" /\ RLe(par.min_step, par.max_step)
    /\ par.step_size = One /\ par.momentum_type = "none"
    /\ iter = StochIterStart + 1
    /\ wrt # start

\* the runs that differ from this one in verbose or in f_star only
C20_Siblings(fstars) ==
    { [par EXCEPT !.verbose = vb, !.f_star = fs] : vb \in BOOLEAN, fs \in fstars }

C22_UnboundedAlong(x) ==
    LET curv == Dot(x, MatVec(f.Q, x))
    IN  \/ RLt(curv, Zero)
        \/ curv = Zero /\ Dot(Jacobian(f, Zeros(f.n)), x) # Zero

\* C22: when SteepestGradientDescentQuadratic returns 'unbounded', the
\* point returned is a direction along which f decreases to -inf.
C22_UnboundedReturnsADirection ==
    (alg = "SDQ" /\ status = "unbounded") => C22_UnboundedAlong(Returned[1])

\* C23: in HeavyBallGradient a line-search step a <= min_a does not stop
\* the algorithm: the loop goes on to another pass.
C23_SmallStepKeepsIterating ==
    [][(alg = "HBG" /\ pc = "loop" /\ a' # a /\ RLe(a', par.min_a))
          => pc' = "loop"]_vars

\* beta as C24 gives it, from the gradient g, the previous gradient past_g
\* and the previous search direction past_d
C24_BetaFR == RDiv(Dot(g, g), Dot(past_g, past_g))

C24_Beta ==
    LET y == VSub(g, past_g)
        pr == RDiv(Dot(g, y), Dot(past_g, past_g))
    IN  CASE par.wf = 1 -> C24_BetaFR
          [] par.wf = 2 -> IF RLt(pr, Zero) THEN Zero ELSE pr
          [] par.wf = 3 -> RDiv(Dot(g, y), Dot(y, past_d))
          [] par.wf = 4 -> RDiv(Dot(g, g), Dot(y, past_d))
          [] par.wf = 0 -> IF RLt(C24_BetaFR, pr) THEN C24_BetaFR
                           ELSE IF RLt(pr, RNeg(C24_BetaFR)) THEN RNeg(C24_BetaFR)
                           ELSE pr

\* C24: in NonLinearConjugateGradient the first iteration searches along
\* d = -g and every later iteration that is not a restart along
\* d = -g + beta * d_prev, with beta by the formula of wf (Fletcher-Reeves
\* for 1, Polak-Ribiere clipped at zero for 2, Hestenes-Stiefel for 3,
\* Dai-Yuan for 4, Polak-Ribiere clamped to [-beta_FR, beta_FR] for 0):
\* beta >= 0 for wf = 2 and |beta| <= beta_FR for wf = 0.
C24_DirectionAndBeta ==
    [][(alg = "NCG" /\ pc = "loop" /\ f_eval' # f_eval) =>
          IF iter = IterStart
             THEN past_d' = VNeg(g)
          ELSE beta'.kind = "formula" =>
                  /\ beta'.val = C24_Beta
                  /\ past_d' = VAdd(VNeg(g), VScale(C24_Beta, past_d))
                  /\ par.wf = 2 => RLe(Zero, beta'.val)
                  /\ par.wf = 0 => RLe(RAbs(beta'.val), C24_BetaFR)]_vars

\* a second search direction built on a Polak-Ribiere value clipped to zero
C24_Witness ==
    /\ alg = "NCG" /\ par.wf = 2 /\ par.r_start = 0
    /\ iter = IterStart + 2
    /\ beta = [kind |-> "formula", val |-> Zero]
    /\ past_d = VNeg(past_g)

\* the direction the line search of this pass went along, from the point it
\* visited: last_wrt = wrt + a * d, for a step a that is not zero
C25_SearchedAlong == VScale(RDiv(One, a'), VSub(last_wrt', wrt))

\* d = -g + beta_i * dp at the point of this pass, with beta_i the
\* configured beta if positive and |beta| * |g| / |dp| if negative
C25_Deflected(dp) ==
    LET grad == Jacobian(f, wrt)
        beta_i == IF RLt(Zero, par.beta) THEN par.beta
                  ELSE RDiv(RMul(RAbs(par.beta), Number(Norm(grad))),
                            Number(Norm(dp)))
    IN  VAdd(VNeg(grad), VScale(beta_i, dp))

\* C25 as written: the first iteration of HeavyBallGradient searches along
\* d = -g and every later one along d = -g + beta_i * d_prev, d_prev being
\* the previous search direction, with beta_i = beta for a configured
\* beta > 0 and beta_i = |beta| * |g| / |d_prev| for beta < 0.
C25_DeflectsByPreviousDirection ==
    [][(alg = "HBG" /\ pc = "loop" /\ f_eval' # f_eval /\ a' # Zero) =>
          IF iter = HBGIterStart
             THEN C25_SearchedAlong = VNeg(Jacobian(f, wrt))
          ELSE C25_SearchedAlong = C25_Deflected(VScale(RDiv(One, a), past_d))]_vars

\* C25 amended: the same, d_prev being the previous displacement
\* last_x - x, that is the previous search direction times the step a of
\* its line search.
C25_DeflectsByPreviousDisplacement ==
    [][(alg = "HBG" /\ pc = "loop" /\ f_eval' # f_eval /\ a' # Zero) =>
          /\ IF iter = HBGIterStart
                THEN C25_SearchedAlong = VNeg(Jacobian(f, wrt))
             ELSE C25_SearchedAlong = C25_Deflected(past_d)
          /\ iter' # iter =>
                past_d' = VSub(wrt', wrt) /\ past_d' = VScale(a', C25_SearchedAlong)]_vars

\* a second iteration, made after a first one of step 1/2
C25_Witness ==
    /\ alg = "HBG" /\ RLt(Zero, par.beta)
    /\ iter = HBGIterStart + 2
    /\ par.max_iter = 1
    /\ past_d # Zeros(f.n)
    /\ VSub(wrt, past_d) = VAdd(start, VScale(Half, VNeg(Jacobian(f, start))))

\* the point C26 has the driving gradient evaluated at
C26_GradientPoint ==
    IF par.momentum_type = "nesterov"
       THEN VSub(wrt, VScale(par.momentum, step))
       ELSE wrt

\* C26: with momentum_type 'nesterov' GradientDescent, AdaMax and RProp
\* evaluate the gradient that drives the update at the point shifted by
\* momentum * (the step stored by the previous iteration), with 'standard'
\* and 'none' at the point as it is; in the first iteration the stored step
\* is 0 and the three types use the gradient of the same point.
C26_NesterovLooksAhead ==
    [][/\ (alg = "GD" /\ pc = "loop") =>
             wrt' = VSub(VSub(wrt, IF par.momentum_type = "none" THEN Zeros(f.n)
                                   ELSE VScale(par.momentum, step)),
                         VScale(par.step_rate, Jacobian(f, C26_GradientPoint)))
       /\ (alg = "AdaMax" /\ pc = "loop" /\ iter' # iter) =>
             est_mom1' = VAdd(VScale(par.beta1, est_mom1),
                              VScale(RSub(One, par.beta1),
                                     Jacobian(f, C26_GradientPoint)))
       /\ (alg = "RProp" /\ pc = "loop" /\ iter' # iter) =>
             jacobian' = Jacobian(f, C26_GradientPoint)
       /\ (\/ alg = "GD" /\ pc = "loop" /\ iter = IterStart
           \/ alg \in {"AdaMax", "RProp"} /\ pc = "loop" /\ iter = StochIterStart) =>
             step = Zeros(f.n) /\ C26_GradientPoint = wrt]_vars

\* a second RProp iteration with 'nesterov' whose gradient, taken at the
\* shifted point, has another sign than the gradient of the point it left
C26_Witness ==
    /\ alg = "RProp" /\ par.momentum_type = "nesterov"
    /\ iter = StochIterStart + 2
    /\ \E i \in 1..f.n : RSign(jacobian[i]) # RSign(g[i])

\* beta1 ^ t, for t >= 1
RECURSIVE C27_Beta1To(_)
C27_Beta1To(t) == IF t = 1 THEN par.beta1 ELSE RMul(C27_Beta1To(t - 1), par.beta1)

\* C27: an AdaMax iteration with momentum_type 'none', numbered
\* t = iter + 1 >= 1 and started from m_0 = u_0 = 0, computes
\* m_t = beta1 * m_(t-1) + (1 - beta1) * g and u_t = max(beta2 * u_(t-1), |g|)
\* per coordinate and moves x by -step_size * (m_t / (1 - beta1^t)) /
\* (u_t + offset); the update is made only while iter < max_iter, and the
\* first pass with iter >= max_iter returns 'stopped'.
C27_AdaMaxUpdate ==
    [][(alg = "AdaMax" /\ pc = "loop" /\ par.momentum_type = "none") =>
          /\ iter = StochIterStart => est_mom1 = Zeros(f.n) /\ est_mom2 = Zeros(f.n)
          /\ IF iter < par.max_iter
                THEN LET t == iter + 1
                         grad == Jacobian(f, wrt)
                     IN  /\ t >= 1 /\ iter' = t /\ status' = "none" /\ pc' = "loop"
                         /\ \A i \in 1..f.n :
                              /\ est_mom1'[i] =
                                    RAdd(RMul(par.beta1, est_mom1[i]),
                                         RMul(RSub(One, par.beta1), grad[i]))
                              /\ est_mom2'[i] =
                                    IF RLt(RAbs(grad[i]), RMul(par.beta2, est_mom2[i]))
                                       THEN RMul(par.beta2, est_mom2[i])
                                       ELSE RAbs(grad[i])
                              /\ RSub(wrt'[i], wrt[i]) =
                                    RNeg(RDiv(RMul(par.step_size,
                                                   RDiv(est_mom1'[i],
                                                        RSub(One, C27_Beta1To(t)))),
                                              RAdd(est_mom2'[i], par.offset)))
                ELSE status' = "stopped" /\ pc' = "done"
                     /\ UNCHANGED <<wrt, iter, est_mom1, est_mom2>>]_vars

\* two updates made with beta1 = 1/2, the budget then spent
C27_Witness ==
    /\ alg = "AdaMax" /\ par.momentum_type = "none" /\ par.beta1 = Half
    /\ par.max_iter = 2 /\ iter = StochIterStart + 2
    /\ status = "stopped"
    /\ wrt # start

\* C28: for every AdaMax instance that passed construction, in every
\* iteration the divisor est_mom2 + offset is >= offset > 0 in every
\* coordinate, also where every gradient was zero, and the bias-correction
\* divisor 1 - beta1^t is > 0 for the number t = iter + 1 of the iteration
\* to come and for those made.
C28_AdaMaxDivisorsPositive ==
    (alg = "AdaMax" /\ pc # "raised") =>
        /\ RLt(Zero, par.offset)
        /\ \A i \in 1..f.n :
              RLe(par.offset, RAdd(est_mom2[i], par.offset))
        /\ \A t \in 1..(iter + 1) : RLt(Zero, RSub(One, RPow(par.beta1, t)))

\* an update made where the gradient is zero: the divisor is the offset
C28_Witness ==
    /\ alg = "AdaMax" /\ pc # "raised"
    /\ iter = StochIterStart + 1
    /\ g = Zeros(f.n)
    /\ est_mom2 = Zeros(f.n)
    /\ wrt = start

\* C29: when the starting point of GradientDescent already satisfies the
\* stopping criterion (gradient norm <= eps, eps >= 0), minimize returns
\* 'optimal' with the point as it was at the start.
C29_OptimalStartIsLeftAlone ==
    (alg = "GD" /\ pc = "done" /\ RLe(Zero, par.eps)
        /\ SLe(GradNorm(start), Root(par.eps)))
        => status = "optimal" /\ Returned[1] = start

\* the algorithm's own step of the iteration just made, from the state it
\* left: step_rate * gradient, the AdaMax quotient, or the RProp magnitude
\* with the sign of the gradient
C30_OwnStep(at) ==
    CASE alg = "GD" -> VScale(par.step_rate, Jacobian(f, at))
      [] alg = "AdaMax" ->
           [i \in 1..f.n |->
               RDiv(RMul(par.step_size,
                         RDiv(est_mom1'[i], RSub(One, RPow(par.beta1, iter')))),
                    RAdd(est_mom2'[i], par.offset))]
      [] alg = "RProp" ->
           [i \in 1..f.n |-> RMul(changes'[i], <<RSign(jacobian'[i]), 1>>)]

\* C30: in GradientDescent, AdaMax and RProp, for each momentum type, after
\* every completed iteration the net change of the point is minus the step
\* stored for the next iteration, which is momentum * (previous step) + the
\* algorithm's own step for 'standard' and 'nesterov' and the own step
\* alone for 'none'.
C30_PointMovesByStoredStep ==
    [][(alg \in {"GD", "AdaMax", "RProp"} /\ pc = "loop" /\ iter' # iter) =>
          /\ wrt' = VSub(wrt, step')
          /\ step' = IF par.momentum_type = "none"
                        THEN C30_OwnStep(wrt)
                     ELSE VAdd(VScale(par.momentum, step),
                               C30_OwnStep(C26_GradientPoint))]_vars

\* a second iteration with 'standard' momentum: the stored step holds a
\* momentum term
C30_Witness ==
    /\ alg = "RProp" /\ par.momentum_type = "standard"
    /\ iter = StochIterStart + 2
    /\ step # RProp_Step2(changes, jacobian)
    /\ step # Zeros(f.n)

=============================================================================
